---- MODULE Spec2Model ----
(***************************************************************************)
(* cuppa command parser: handle_cmd / exec_cmd / exec_cmd_struct (cmd.c),  *)
(* error reporting (errors.c) and response routing (io.c).                 *)
(*                                                                         *)
(* Text is modelled as sequences of one-character strings while the code   *)
(* scans it, and as TLA+ strings once it has been rendered by printf.      *)
(* Memory allocation (getline, calloc) is taken to succeed.                *)
(***************************************************************************)
EXTENDS Naturals, Integers, Sequences, FiniteSets, TLC

VARIABLES
    cmds,       \* the END_CMDS-terminated command table handed to handle_cmd
    in,         \* the lines still unread on the input stream
    stdout,     \* lines written to standard output, in order
    stderr,     \* lines written to standard error, in order
    propout,    \* lines written (and flushed) to the propagate stream
    propbuf,    \* lines written to the propagate stream and not flushed yet
    ret,        \* value returned by the latest call ("none" before the first)
    last        \* what the latest call did (observation only)

vars == <<cmds, in, stdout, stderr, propout, propbuf, ret, last>>

----------------------------------------------------------------------------
(* Bounds of the model *)

MaxCmds == 2        \* entries of a command table before END_CMDS
MaxLineLen == 5     \* characters of a line before its terminator (SpecTok)
MaxEmits == 2       \* lines a stream may hold before response() is called (SpecIO)
MaxLines == 2       \* lines on the input stream (SpecSeq)

----------------------------------------------------------------------------
(* C basics *)

\* The null pointer.  It is held as a one-element sequence so that it can be
\* compared with the character sequences a char pointer may point to.
NULL == <<"NULL">>
NUL == "NUL"        \* the null character '\0'

\* isspace in the C locale (the vertical tab has no TLA+ string escape and is
\* not among the characters of the model)
isspace(c) == c \in {" ", "\t", "\n", "\f", "\r"}

\* printf("%s", s) of a NUL-terminated string held as a character sequence
RECURSIVE Str(_)
Str(s) == IF s = <<>> THEN "" ELSE Head(s) \o Str(Tail(s))

\* the C string that starts at position p of buffer
RECURSIVE CStr(_, _)
CStr(buffer, p) ==
    IF buffer[p] = NUL THEN <<>> ELSE <<buffer[p]>> \o CStr(buffer, p + 1)

----------------------------------------------------------------------------
(* errors.h, errors.c *)

error_enum ==
    << "E_OK", "E_NO_FILE", "E_BAD_STATE", "E_BAD_COMMAND", "E_BAD_FILE",
       "E_BAD_CONFIG", "E_AUDIO_INIT_FAIL", "E_INTERNAL_ERROR", "E_NO_MEM",
       "E_EOF", "E_INCOMPLETE", "E_UNKNOWN" >>

E_OK == "E_OK"
E_BAD_COMMAND == "E_BAD_COMMAND"
E_INTERNAL_ERROR == "E_INTERNAL_ERROR"
E_EOF == "E_EOF"

\* Codes cmd.c uses that the enum of errors.h does not declare.
E_COMMAND_REJECTED == "E_COMMAND_REJECTED"
E_COMMAND_IGNORED == "E_COMMAND_IGNORED"

COMMAND_ERRORS ==
    [c \in {E_COMMAND_REJECTED, E_COMMAND_IGNORED} |->
        IF c = E_COMMAND_REJECTED
        THEN [name |-> "COMMAND_REJECTED", blame |-> "EB_POLICY"]
        ELSE [name |-> "COMMAND_IGNORED", blame |-> "EB_PROGRAMMER"]]

ErrorCodes == {error_enum[i] : i \in DOMAIN error_enum} \cup DOMAIN COMMAND_ERRORS

\* (int)code
ErrorValue(code) == (CHOOSE i \in DOMAIN error_enum : error_enum[i] = code) - 1

NUM_ERRORS == Len(error_enum)

ERRORS ==
    << "OK", "NO_FILE", "BAD_STATE", "BAD_COMMAND", "BAD_FILE", "BAD_CONFIG",
       "AUDIO_INIT_FAIL", "INTERNAL_ERROR", "NO_MEM", "EOF", "UNKNOWN" >>

ERROR_BLAME ==
    << "EB_PROGRAMMER", "EB_USER", "EB_USER", "EB_USER", "EB_ENVIRONMENT",
       "EB_ENVIRONMENT", "EB_ENVIRONMENT", "EB_PROGRAMMER", "EB_ENVIRONMENT",
       "EB_PROGRAMMER", "EB_PROGRAMMER" >>

error_blame_enum == << "EB_USER", "EB_ENVIRONMENT", "EB_PROGRAMMER" >>

\* An array with fewer initialisers than elements is zero-filled: the names
\* past the last initialiser are null pointers, the blames past it are 0.
NameIsNull(code) == code \notin DOMAIN COMMAND_ERRORS /\ ErrorValue(code) >= Len(ERRORS)

ErrorName(code) ==
    IF code \in DOMAIN COMMAND_ERRORS THEN COMMAND_ERRORS[code].name
    ELSE IF NameIsNull(code) THEN NULL
    ELSE ERRORS[ErrorValue(code) + 1]

ErrorBlame(code) ==
    IF code \in DOMAIN COMMAND_ERRORS THEN COMMAND_ERRORS[code].blame
    ELSE IF ErrorValue(code) < Len(ERROR_BLAME)
         THEN ERROR_BLAME[ErrorValue(code) + 1]
    ELSE error_blame_enum[1]

BlameValue(b) == (CHOOSE i \in DOMAIN error_blame_enum : error_blame_enum[i] = b) - 1

BLAME_RESPONSE == << "R_WHAT", "R_FAIL", "R_OOPS" >>

POLICY_RESPONSE == [b \in {"EB_POLICY"} |-> "R_NOPE"]

BlameResponse(b) ==
    IF b \in DOMAIN POLICY_RESPONSE THEN POLICY_RESPONSE[b]
    ELSE BLAME_RESPONSE[BlameValue(b) + 1]

----------------------------------------------------------------------------
(* messages.c *)

MSG_CMD_ARGN == "Expecting no argument, got one"
MSG_CMD_ARGU == "Expecting an argument, didn't get one"
MSG_CMD_HITEND == "Hit end of commands list without stopping"
MSG_CMD_NOPROP == "Command type is PROPAGATE, but propagate stream is NULL"
MSG_CMD_NOSUCH == "Command not recognised"
MSG_CMD_NOWORD == "Need at least a command word"
MSG_ERR_NOMEM == "(ran out of memory to write error!)"

----------------------------------------------------------------------------
(* io.c *)

\* enum response, in the order of the initialisers of the three tables
response_enum ==
    << "R_OKAY", "R_WHAT", "R_FAIL", "R_OOPS", "R_OHAI", "R_TTFN", "R_STAT",
       "R_TIME", "R_DBUG" >>

ResponseValue(code) == (CHOOSE i \in DOMAIN response_enum : response_enum[i] = code) - 1

RESPONSES ==
    << "OKAY", "WHAT", "FAIL", "OOPS", "OHAI", "TTFN", "STAT", "TIME", "DBUG" >>

RESPONSE_STDOUT == << TRUE, TRUE, TRUE, TRUE, TRUE, TRUE, TRUE, TRUE, FALSE >>

RESPONSE_STDERR == << FALSE, FALSE, TRUE, TRUE, FALSE, FALSE, FALSE, FALSE, TRUE >>

\* The policy-rejection response, which io.c does not declare.
NOPE_RESPONSE == [r \in {"R_NOPE"} |-> [name |-> "NOPE", out |-> TRUE, err |-> FALSE]]

ResponseCodes == {response_enum[i] : i \in DOMAIN response_enum} \cup DOMAIN NOPE_RESPONSE

ResponseName(code) ==
    IF code \in DOMAIN NOPE_RESPONSE THEN NOPE_RESPONSE[code].name
    ELSE RESPONSES[ResponseValue(code) + 1]

ToStdout(code) ==
    IF code \in DOMAIN NOPE_RESPONSE THEN NOPE_RESPONSE[code].out
    ELSE RESPONSE_STDOUT[ResponseValue(code) + 1]

ToStderr(code) ==
    IF code \in DOMAIN NOPE_RESPONSE THEN NOPE_RESPONSE[code].err
    ELSE RESPONSE_STDERR[ResponseValue(code) + 1]

\* One call of response(): the code and the rendered message.
response(code, msg) == [code |-> code, msg |-> msg]

\* The line vresponse prints for a response.
ResponseLine(r) == ResponseName(r.code) \o " " \o r.msg \o "\n"

\* Mutant: every response is written to stdout, whatever its flag.
vresponse_stdout_all(rs) == [i \in DOMAIN rs |-> ResponseLine(rs[i])]

\* vresponse applied to a sequence of responses: what each stream receives.
RECURSIVE vresponse_stdout(_)
vresponse_stdout(rs) ==
    IF rs = <<>> THEN <<>>
    ELSE (IF ToStdout(Head(rs).code) THEN <<ResponseLine(Head(rs))>> ELSE <<>>)
         \o vresponse_stdout(Tail(rs))

RECURSIVE vresponse_stderr(_)
vresponse_stderr(rs) ==
    IF rs = <<>> THEN <<>>
    ELSE (IF ToStderr(Head(rs).code) THEN <<ResponseLine(Head(rs))>> ELSE <<>>)
         \o vresponse_stderr(Tail(rs))

dbug(msg) == response("R_DBUG", msg)


\* What a piece of code did: the code it returned, the responses it sent, the
\* codes it passed to error(), the handlers it invoked, the lines it wrote to
\* prop, whether it flushed prop after the last of them, the table entries it
\* ran.
NoEffect ==
    [err |-> E_OK, resp |-> <<>>, raised |-> <<>>, called |-> <<>>, propw |-> <<>>,
     flushed |-> FALSE, tried |-> <<>>]

\* Mutant: what the later code sends comes out before what the earlier sent.
Then_reversed(a, b) ==
    [err |-> b.err, resp |-> b.resp \o a.resp, raised |-> b.raised \o a.raised,
     called |-> b.called \o a.called, propw |-> b.propw \o a.propw,
     flushed |-> b.flushed \/ (a.flushed /\ b.propw = <<>>),
     tried |-> b.tried \o a.tried]

\* b after a: the later return value overwrites the earlier one
Then(a, b) ==
    [err |-> b.err, resp |-> a.resp \o b.resp, raised |-> a.raised \o b.raised,
     called |-> a.called \o b.called, propw |-> a.propw \o b.propw,
     flushed |-> b.flushed \/ (a.flushed /\ b.propw = <<>>),
     tried |-> a.tried \o b.tried]

\* What printf may print for "%s" given a null pointer.
NullPrints == {"(null)", ""}

\* Mutant: the response is picked by the error code, not by its blame.
error_by_code(code, msg, np) ==
    [NoEffect EXCEPT
       !.err = code,
       !.raised = <<code>>,
       !.resp = <<response(IF code \in DOMAIN COMMAND_ERRORS THEN "R_OOPS"
                           ELSE BLAME_RESPONSE[(ErrorValue(code) % Len(BLAME_RESPONSE)) + 1],
                           np \o " " \o msg)>>]

\* error(code, "%s", msg): renders msg into buf, sends the response picked by
\* the blame of code, and returns code.  np is what printf makes of a name
\* that is a null pointer.
error_printing(code, msg, np) ==
    LET emsg == IF NameIsNull(code) THEN np ELSE ErrorName(code)
        buf == msg
    IN [NoEffect EXCEPT
          !.err = code,
          !.raised = <<code>>,
          !.resp = <<response(BlameResponse(ErrorBlame(code)), emsg \o " " \o buf)>>]

\* error() as cmd.c calls it: with codes whose names are not null.
error(code, msg) == error_printing(code, msg, "(null)")

----------------------------------------------------------------------------
(* cmd.h *)

C_NULLARY == "C_NULLARY"
C_UNARY == "C_UNARY"
C_REJECT == "C_REJECT"
C_PROPAGATE == "C_PROPAGATE"
C_IGNORE == "C_IGNORE"
C_END_OF_LIST == "C_END_OF_LIST"

ANY == NULL

NCMD(word, func) == [word |-> word, function_type |-> C_NULLARY, function |-> func]
UCMD(word, func) == [word |-> word, function_type |-> C_UNARY, function |-> func]
REJECT(word, why) == [word |-> word, function_type |-> C_REJECT, function |-> why]
PROPAGATE(word) == [word |-> word, function_type |-> C_PROPAGATE, function |-> NUL]
IGNORE(word) == [word |-> word, function_type |-> C_IGNORE, function |-> NUL]
END_CMDS ==
    [word |-> <<"X", "X", "X", "X">>, function_type |-> C_END_OF_LIST, function |-> NUL]

----------------------------------------------------------------------------
(* cmd.c *)

\* for (p; p < end && isspace(*p); p++) *p = '\0';
RECURSIVE ZapSpaces(_, _, _)
ZapSpaces(buffer, p, end) ==
    IF p < end /\ isspace(buffer[p])
    THEN ZapSpaces([buffer EXCEPT ![p] = NUL], p + 1, end)
    ELSE [buffer |-> buffer, p |-> p]

\* for (arg = word; arg < end && !isspace(*arg); arg++) ;
RECURSIVE SkipWord(_, _, _)
SkipWord(buffer, arg, end) ==
    IF arg < end /\ ~isspace(buffer[arg]) THEN SkipWord(buffer, arg + 1, end) ELSE arg

\* Mutant: trailing whitespace is left in place.
StripTrailing_kept(buffer, ws) == buffer

\* for (ws = end - 1; isspace(*ws); ws--) *ws = '\0';
RECURSIVE StripTrailing(_, _)
StripTrailing(buffer, ws) ==
    IF isspace(buffer[ws])
    THEN StripTrailing([buffer EXCEPT ![ws] = NUL], ws - 1)
    ELSE buffer

\* Mutant: the test for a missing word is off by one.
NoWord_off_by_one(word, end) == word > end

\* if (word >= end): the line held nothing but whitespace.
NoWord(word, end) == word >= end

\* Mutant: the argument pointer is never reset to NULL.
ArgOrNull_kept(arg, end) == arg

\* if (arg >= end) arg = NULL; position 0 stands for NULL.
ArgOrNull(arg, end) == IF arg >= end THEN 0 ELSE arg

\* The tokenizing part of handle_cmd.  buffer holds length characters and the
\* terminating NUL; positions count from 1, so end is length + 1.
Tokenize(buffer, length) ==
    LET end == length + 1
        lead == ZapSpaces(buffer, 1, end)
        word == lead.p
    IN IF NoWord(word, end)
       THEN [ok |-> FALSE, word |-> NULL, arg |-> NULL]
       ELSE LET sep == ZapSpaces(lead.buffer, SkipWord(lead.buffer, word, end), end)
                arg == ArgOrNull(sep.p, end)
                stripped == StripTrailing(sep.buffer, end - 1)
            IN [ok |-> TRUE,
                word |-> CStr(stripped, word),
                arg |-> IF arg = 0 THEN NULL ELSE CStr(stripped, arg)]

\* Mutant: ANY is compared like a word, so it matches nothing.
Matches_no_any(cmd, word) == cmd.word = word

\* cmd->word == ANY || strcmp(cmd->word, word) == 0
Matches(cmd, word) == cmd.word = ANY \/ cmd.word = word

\* fprintf(prop, "%s\n", word) or fprintf(prop, "%s %s\n", word, arg)
PropLine(word, arg) ==
    IF arg = NULL THEN Str(word) \o "\n" ELSE Str(word) \o " " \o Str(arg) \o "\n"

\* The cases of the switch of exec_cmd_struct.  hres is what the entry's
\* handler returns if it is invoked; idx is the entry's place in the table.
Invoke(idx, arg, hres) ==
    [NoEffect EXCEPT !.err = hres, !.called = <<[entry |-> idx, arg |-> arg]>>]

\* Mutant: the handler is invoked whether or not an argument came.
nullary_case_any_arity(idx, arg, hres) == Invoke(idx, arg, hres)

nullary_case(idx, arg, hres) ==
    IF arg = NULL THEN Invoke(idx, arg, hres) ELSE error(E_BAD_COMMAND, MSG_CMD_ARGN)

unary_case(idx, arg, hres) ==
    IF arg = NULL THEN error(E_BAD_COMMAND, MSG_CMD_ARGU) ELSE Invoke(idx, arg, hres)

\* Mutant: a fixed message instead of the entry's reason.
reject_case_fixed_reason(cmd) == error(E_COMMAND_REJECTED, MSG_CMD_NOSUCH)

reject_case(cmd) == error(E_COMMAND_REJECTED, cmd.function)

\* Mutant: IGNORE reports plain success.
ignore_case_ok == NoEffect

ignore_case == [NoEffect EXCEPT !.err = E_COMMAND_IGNORED]

\* Mutant: the line is written but the call is not marked as ignored.
propagate_case_unmarked(word, arg, prop) ==
    IF prop = NULL
    THEN error(E_INTERNAL_ERROR, MSG_CMD_NOPROP)
    ELSE [NoEffect EXCEPT !.propw = <<PropLine(word, arg)>>, !.flushed = TRUE]

\* Mutant: the line is written but prop is not flushed.
propagate_case_unflushed(word, arg, prop) ==
    LET sent == IF prop = NULL
                THEN error(E_INTERNAL_ERROR, MSG_CMD_NOPROP)
                ELSE [NoEffect EXCEPT !.propw = <<PropLine(word, arg)>>]
    IN [sent EXCEPT !.err = E_COMMAND_IGNORED]

\* fprintf(prop, ...); fflush(prop); then err = E_COMMAND_IGNORED
propagate_case(word, arg, prop) ==
    LET sent == IF prop = NULL
                THEN error(E_INTERNAL_ERROR, MSG_CMD_NOPROP)
                ELSE [NoEffect EXCEPT !.propw = <<PropLine(word, arg)>>, !.flushed = TRUE]
    IN [sent EXCEPT !.err = E_COMMAND_IGNORED]

end_of_list_case == error(E_INTERNAL_ERROR, MSG_CMD_HITEND)

exec_cmd_struct(cmd, idx, word, arg, prop, hres) ==
    Then([NoEffect EXCEPT !.tried = <<idx>>],
         CASE cmd.function_type = C_NULLARY -> nullary_case(idx, arg, hres)
           [] cmd.function_type = C_UNARY -> unary_case(idx, arg, hres)
           [] cmd.function_type = C_REJECT -> reject_case(cmd)
           [] cmd.function_type = C_IGNORE -> ignore_case
           [] cmd.function_type = C_PROPAGATE -> propagate_case(word, arg, prop)
           [] cmd.function_type = C_END_OF_LIST -> end_of_list_case)

\* Mutant: the loop does not stop at the first match.
RECURSIVE exec_cmd_loop_all(_, _, _, _, _, _, _, _)
exec_cmd_loop_all(table, cmd, gotcmd, done, word, arg, prop, hres) ==
    IF table[cmd].function_type # C_END_OF_LIST
    THEN IF Matches(table[cmd], word)
         THEN exec_cmd_loop_all(table, cmd + 1, TRUE,
                  Then(done, exec_cmd_struct(table[cmd], cmd, word, arg, prop, hres)),
                  word, arg, prop, hres)
         ELSE exec_cmd_loop_all(table, cmd + 1, gotcmd, done, word, arg, prop, hres)
    ELSE [gotcmd |-> gotcmd, done |-> done]

\* Mutant: the loop stops at a match only if the entry did not fail.
RECURSIVE exec_cmd_loop_retry(_, _, _, _, _, _, _, _)
exec_cmd_loop_retry(table, cmd, gotcmd, done, word, arg, prop, hres) ==
    IF table[cmd].function_type # C_END_OF_LIST /\ ~gotcmd
    THEN IF Matches(table[cmd], word)
         THEN LET ran == exec_cmd_struct(table[cmd], cmd, word, arg, prop, hres)
              IN exec_cmd_loop_retry(table, cmd + 1,
                     ran.err \in {E_OK, E_COMMAND_IGNORED}, Then(done, ran),
                     word, arg, prop, hres)
         ELSE exec_cmd_loop_retry(table, cmd + 1, gotcmd, done, word, arg, prop, hres)
    ELSE [gotcmd |-> gotcmd, done |-> done]

\* Mutant: the word is compared before the entry is tested for END_CMDS.
RECURSIVE exec_cmd_loop_match_first(_, _, _, _, _, _, _, _)
exec_cmd_loop_match_first(table, cmd, gotcmd, done, word, arg, prop, hres) ==
    IF gotcmd THEN [gotcmd |-> gotcmd, done |-> done]
    ELSE IF Matches(table[cmd], word)
    THEN exec_cmd_loop_match_first(table, cmd + 1, TRUE,
             Then(done, exec_cmd_struct(table[cmd], cmd, word, arg, prop, hres)),
             word, arg, prop, hres)
    ELSE IF table[cmd].function_type = C_END_OF_LIST
    THEN [gotcmd |-> gotcmd, done |-> done]
    ELSE exec_cmd_loop_match_first(table, cmd + 1, gotcmd, done, word, arg, prop, hres)

\* Mutant: the END_CMDS entry is run like any other when nothing matched.
RECURSIVE exec_cmd_loop_into_end(_, _, _, _, _, _, _, _)
exec_cmd_loop_into_end(table, cmd, gotcmd, done, word, arg, prop, hres) ==
    IF gotcmd THEN [gotcmd |-> gotcmd, done |-> done]
    ELSE IF table[cmd].function_type = C_END_OF_LIST \/ Matches(table[cmd], word)
    THEN exec_cmd_loop_into_end(table, cmd + 1, TRUE,
             Then(done, exec_cmd_struct(table[cmd], cmd, word, arg, prop, hres)),
             word, arg, prop, hres)
    ELSE exec_cmd_loop_into_end(table, cmd + 1, gotcmd, done, word, arg, prop, hres)

\* The loop of exec_cmd from entry cmd on.
RECURSIVE exec_cmd_loop(_, _, _, _, _, _, _, _)
exec_cmd_loop(table, cmd, gotcmd, done, word, arg, prop, hres) ==
    IF table[cmd].function_type # C_END_OF_LIST /\ ~gotcmd
    THEN IF Matches(table[cmd], word)
         THEN exec_cmd_loop(table, cmd + 1, TRUE,
                  Then(done, exec_cmd_struct(table[cmd], cmd, word, arg, prop, hres)),
                  word, arg, prop, hres)
         ELSE exec_cmd_loop(table, cmd + 1, gotcmd, done, word, arg, prop, hres)
    ELSE [gotcmd |-> gotcmd, done |-> done]

\* Mutant: an unmatched word is not reported.
exec_cmd_unchecked(table, word, arg, prop, hres) ==
    exec_cmd_loop(table, 1, FALSE, NoEffect, word, arg, prop, hres).done

exec_cmd(table, word, arg, prop, hres) ==
    LET loop == exec_cmd_loop(table, 1, FALSE, NoEffect, word, arg, prop, hres)
    IN IF ~loop.gotcmd
       THEN Then(loop.done, error(E_BAD_COMMAND, MSG_CMD_NOSUCH))
       ELSE loop.done

\* Mutant: the argument is left out of the OKAY response.
Okay_word_only(word, arg) == response("R_OKAY", Str(word))

\* response(R_OKAY, "%s", word) or response(R_OKAY, "%s %s", word, arg)
Okay(word, arg) ==
    response("R_OKAY", IF arg = NULL THEN Str(word) ELSE Str(word) \o " " \o Str(arg))

\* Mutant: E_COMMAND_IGNORED is passed on to the caller.
AfterExec_passthrough(ex, word, arg) ==
    IF ex.err = E_OK THEN Then(ex, [NoEffect EXCEPT !.resp = <<Okay(word, arg)>>])
    ELSE ex

\* What handle_cmd does with the result of exec_cmd: the OKAY response on
\* E_OK, and E_COMMAND_IGNORED turned into E_OK.
AfterExec(ex, word, arg) ==
    IF ex.err = E_OK THEN Then(ex, [NoEffect EXCEPT !.resp = <<Okay(word, arg)>>])
    ELSE IF ex.err = E_COMMAND_IGNORED THEN [ex EXCEPT !.err = E_OK]
    ELSE ex

\* Mutant: end of file is reported through error().
AtEof_reported(got) == Then(got, error(E_EOF, "end of file"))

\* if (length == -1) { dbug("end of file"); err = E_EOF; }
AtEof(got) ==
    [Then(got, [NoEffect EXCEPT !.resp = <<dbug("end of file")>>]) EXCEPT !.err = E_EOF]

\* One call handle_cmd(usr, table, in, prop) on the input stream.  hres is
\* what the handler returns if one is invoked; junk is what the buffer holds
\* when getline fails without storing a line.
handle_cmd(table, stream, prop, hres, junk) ==
    LET length == IF stream = <<>> THEN -1 ELSE Len(Head(stream))
        buffer == IF length = -1 THEN junk \o <<NUL>> ELSE Head(stream) \o <<NUL>>
        got == [NoEffect EXCEPT
                  !.resp = <<dbug("got command: " \o Str(CStr(buffer, 1)))>>]
        tok == Tokenize(buffer, length)
        run ==
            IF length = -1
            THEN AtEof(got)
            ELSE IF ~tok.ok
            THEN Then(got, error(E_BAD_COMMAND, MSG_CMD_NOWORD))
            ELSE Then(got, AfterExec(exec_cmd(table, tok.word, tok.arg, prop, hres),
                                     tok.word, tok.arg))
        all == Then(run, [NoEffect EXCEPT !.err = run.err,
                                          !.resp = <<dbug("command processed")>>])
    IN [op |-> "handle_cmd",
        prop |-> prop,
        hres |-> hres,
        eof |-> length = -1,
        line |-> IF length = -1 THEN NULL ELSE Head(stream),
        tokenized |-> length # -1 /\ tok.ok,
        word |-> IF length # -1 /\ tok.ok THEN tok.word ELSE NULL,
        arg |-> IF length # -1 /\ tok.ok THEN tok.arg ELSE NULL,
        resp |-> all.resp,
        raised |-> all.raised,
        called |-> all.called,
        propw |-> all.propw,
        flushed |-> all.flushed,
        tried |-> all.tried,
        ret |-> all.err,
        rest |-> IF length = -1 THEN stream ELSE Tail(stream)]

----------------------------------------------------------------------------
(* Inputs *)

PROP == <<"prop">>                     \* an open propagate stream
PropArgs == {NULL, PROP}            \* what a caller may pass as prop

HandlerOutcomes == {E_OK, "E_BAD_STATE", E_INTERNAL_ERROR, E_COMMAND_IGNORED}

\* contents of a buffer getline allocated but stored no line into
UninitBuffers == {<<>>, <<"X">>}

RECURSIVE SeqsUpTo(_, _)
SeqsUpTo(S, n) ==
    IF n = 0 THEN {<<>>}
    ELSE LET shorter == SeqsUpTo(S, n - 1)
         IN shorter \cup {Append(s, x) : s \in {t \in shorter : Len(t) = n - 1}, x \in S}

TableWords == {<<"X">>, <<"X", "X">>, ANY}

\* the reason each REJECT entry gives
Reason(w) == IF w = ANY THEN "unknown" ELSE IF Len(w) = 1 THEN "removed" ELSE "obsolete"

Entries ==
    UNION {{NCMD(w, "ncmd"), UCMD(w, "ucmd"), REJECT(w, Reason(w)),
            PROPAGATE(w), IGNORE(w)} : w \in TableWords}

Tables == {t \o <<END_CMDS>> : t \in SeqsUpTo(Entries, MaxCmds)}

\* Lines as getline returns them, built from a word and an optional argument.
InputWords == {<<"X">>, <<"X", "X">>, <<"X", "X", "X", "X">>}

InputArgs == {<<"X">>, <<"X", " ", "X">>}

\* a padded line and an unterminated last line
OddLines == {<<" ", "X", " ", " ", "X", " ", "\n">>, <<"X">>}

CommandLines ==
    {w \o <<"\n">> : w \in InputWords}
        \cup {w \o <<" ">> \o a \o <<"\n">> : w \in InputWords, a \in InputArgs}
        \cup OddLines

----------------------------------------------------------------------------
(* The state machine *)

NoCall ==
    [op |-> "none", prop |-> NULL, hres |-> E_OK, eof |-> FALSE, line |-> NULL,
     tokenized |-> FALSE, word |-> NULL, arg |-> NULL, resp |-> <<>>,
     raised |-> <<>>, called |-> <<>>, propw |-> <<>>, flushed |-> FALSE, tried |-> <<>>,
     ret |-> E_OK, rest |-> <<>>]

Init ==
    /\ cmds \in Tables
    /\ in \in {<<>>} \cup {<<l>> : l \in CommandLines}
    /\ stdout = <<>>
    /\ stderr = <<>>
    /\ propout = <<>>
    /\ propbuf = <<>>
    /\ ret = "none"
    /\ last = NoCall

\* Mutant: an error code, once returned, is returned by every later call.
Apply_sticky(r) ==
    /\ in' = r.rest
    /\ stdout' = stdout \o vresponse_stdout(r.resp)
    /\ stderr' = stderr \o vresponse_stderr(r.resp)
    /\ propout' = IF r.flushed THEN propout \o propbuf \o r.propw ELSE propout
    /\ propbuf' = IF r.flushed THEN <<>> ELSE propbuf \o r.propw
    /\ ret' = IF ret \in {"none", E_OK} THEN r.ret ELSE ret
    /\ last' = r
    /\ UNCHANGED cmds

\* The effect on the streams of a run of handle_cmd.
Apply(r) ==
    /\ in' = r.rest
    /\ stdout' = stdout \o vresponse_stdout(r.resp)
    /\ stderr' = stderr \o vresponse_stderr(r.resp)
    /\ propout' = IF r.flushed THEN propout \o propbuf \o r.propw ELSE propout
    /\ propbuf' = IF r.flushed THEN <<>> ELSE propbuf \o r.propw
    /\ ret' = r.ret
    /\ last' = r
    /\ UNCHANGED cmds

\* The handler's return value matters only to a call that invokes a handler,
\* and the junk only to a call whose getline fails.
Invokes(prop) == handle_cmd(cmds, in, prop, E_OK, <<>>).called # <<>>

OutcomesFor(prop) == IF Invokes(prop) THEN HandlerOutcomes ELSE {E_OK}

JunkFor(stream) == IF stream = <<>> THEN UninitBuffers ELSE {<<>>}

\* A caller that owns a propagate stream (or none) calls handle_cmd directly.
\* Callers stop reading at end of file.
HandleCmd ==
    /\ ret # E_EOF
    /\ \E prop \in PropArgs :
          \E hres \in OutcomesFor(prop), junk \in JunkFor(in) :
             Apply(handle_cmd(cmds, in, prop, hres, junk))

\* check_commands: handle_cmd on stdin with no propagate stream, if input is
\* waiting; E_OK and nothing else if it is not.
CheckCommands ==
    /\ ret # E_EOF
    /\ \E input_waiting \in BOOLEAN :
          IF input_waiting
          THEN \E hres \in OutcomesFor(NULL), junk \in JunkFor(in) :
                  Apply(handle_cmd(cmds, in, NULL, hres, junk))
          ELSE /\ ret' = E_OK
               /\ last' = [NoCall EXCEPT !.op = "check_commands", !.rest = in]
               /\ UNCHANGED <<cmds, in, stdout, stderr, propout, propbuf>>

Next == HandleCmd \/ CheckCommands

Spec == Init /\ [][Next]_vars

----------------------------------------------------------------------------
(* The tokenizer on arbitrary lines: the same calls, started on one line of *)
(* any text over a small alphabet, with or without the line terminator     *)
(* (getline returns the last line of a stream unterminated if the stream   *)
(* does not end in a newline, and never returns a line of no characters).  *)

TokChars == {"X", "Y", " ", "\t"}

TokLines ==
    {body \o <<"\n">> : body \in SeqsUpTo(TokChars, MaxLineLen)}
        \cup (SeqsUpTo(TokChars, MaxLineLen) \ {<<>>})

\* tables whose first entry, or second, takes every word
TokTables ==
    {<<NCMD(ANY, "ncmd"), END_CMDS>>,
     <<UCMD(ANY, "ucmd"), END_CMDS>>,
     <<UCMD(<<"X">>, "ucmd"), NCMD(ANY, "ncmd"), END_CMDS>>}

InitTok ==
    /\ cmds \in TokTables
    /\ in \in {<<l>> : l \in TokLines}
    /\ stdout = <<>>
    /\ stderr = <<>>
    /\ propout = <<>>
    /\ propbuf = <<>>
    /\ ret = "none"
    /\ last = NoCall

SpecTok == InitTok /\ [][Next]_vars

----------------------------------------------------------------------------
(* Several lines in a row: the same calls, started on a stream of up to     *)
(* MaxLines lines and a table that forwards some of them.                   *)

SeqLines ==
    {<<"X", "\n">>, <<"X", "X", "\n">>, <<"X", " ", "X", "\n">>,
     <<"X", "X", " ", "X", "\n">>}

SeqTables ==
    {<<PROPAGATE(ANY), END_CMDS>>,
     <<PROPAGATE(<<"X">>), NCMD(ANY, "ncmd"), END_CMDS>>,
     <<UCMD(<<"X", "X">>, "ucmd"), PROPAGATE(ANY), END_CMDS>>,
     <<REJECT(<<"X">>, "removed"), IGNORE(<<"X", "X">>), END_CMDS>>}

InitSeq ==
    /\ cmds \in SeqTables
    /\ in \in SeqsUpTo(SeqLines, MaxLines)
    /\ stdout = <<>>
    /\ stderr = <<>>
    /\ propout = <<>>
    /\ propbuf = <<>>
    /\ ret = "none"
    /\ last = NoCall

SpecSeq == InitSeq /\ [][Next]_vars

----------------------------------------------------------------------------
(* response() and error() as the rest of the program calls them: any        *)
(* response code and any error code, one call after another.                *)

IOMessages == {"ready", "1 2"}

InitIO ==
    /\ cmds = <<END_CMDS>>
    /\ in = <<>>
    /\ stdout = <<>>
    /\ stderr = <<>>
    /\ propout = <<>>
    /\ propbuf = <<>>
    /\ ret = "none"
    /\ last = NoCall

\* The effect on the streams of a call that sends responses.
Emit(op, eff) ==
    /\ stdout' = stdout \o vresponse_stdout(eff.resp)
    /\ stderr' = stderr \o vresponse_stderr(eff.resp)
    /\ ret' = eff.err
    /\ last' = [NoCall EXCEPT !.op = op, !.resp = eff.resp, !.raised = eff.raised,
                              !.ret = eff.err]
    /\ UNCHANGED <<cmds, in, propout, propbuf>>

RoomToEmit == Len(stdout) < MaxEmits /\ Len(stderr) < MaxEmits

\* response(code, "%s", msg)
Respond ==
    /\ RoomToEmit
    /\ \E code \in ResponseCodes, msg \in IOMessages :
          Emit("response", [NoEffect EXCEPT !.resp = <<response(code, msg)>>])

\* error(code, "%s", msg)
RaiseError ==
    /\ RoomToEmit
    /\ \E code \in ErrorCodes, msg \in IOMessages, np \in NullPrints :
          Emit("error", error_printing(code, msg, np))

NextIO == Respond \/ RaiseError

SpecIO == InitIO /\ [][NextIO]_vars

----------------------------------------------------------------------------
(* Vocabulary of the properties.  It is stated on the table, the line and   *)
(* the streams, not on the operators above.                                 *)

\* the latest call was a handle_cmd that reached the dispatcher
Dispatched == last.op = "handle_cmd" /\ last.tokenized

\* entries of the table before the END sentinel
Slots == 1 .. (Len(cmds) - 1)

\* entry i's match criterion applies to the word of the line
Applies(i) == cmds[i].word = ANY \/ cmds[i].word = last.word

\* the earliest entry whose criterion applies, as a set (empty if none does)
Earliest == {i \in Slots : Applies(i) /\ \A j \in Slots : j < i => ~Applies(j)}

\* the matched entry has policy t
MatchedIs(t) == Dispatched /\ \E i \in Earliest : cmds[i].function_type = t

HasArg == last.arg # NULL

\* the word and argument as a line of text
Echo == IF HasArg THEN Str(last.word) \o " " \o Str(last.arg) ELSE Str(last.word)

\* the debug trace of a call that read a line; it goes to stderr only
DebugTrace ==
    << "DBUG got command: " \o Str(last.line) \o "\n", "DBUG command processed\n" >>

OkayLine == "OKAY " \o Echo \o "\n"

NoOkay == \A k \in DOMAIN stdout : stdout[k] # OkayLine

\* the responses of the call other than debug messages
Replies == SelectSeq(last.resp, LAMBDA r : r.code # "R_DBUG")

----------------------------------------------------------------------------
(* C1: exec_cmd runs the earliest entry whose match criterion applies to   *)
(* the word and no other entry, so at most one handler is invoked per line. *)
C1_EarliestEntryOnly ==
    Dispatched =>
        /\ \A i \in Earliest : last.tried = <<i>>
        /\ Earliest = {} => last.tried = <<>>
        /\ Len(last.called) <= 1
        /\ \A k \in DOMAIN last.called : last.called[k].entry \in Earliest

\* two entries of different policies both apply; the earlier one's handler ran
C1_Witness ==
    /\ Dispatched
    /\ Len(cmds) = 3
    /\ Applies(1) /\ Applies(2)
    /\ cmds[1].function_type = C_UNARY /\ cmds[2].function_type = C_NULLARY
    /\ last.tried = <<1>>
    /\ Len(last.called) = 1

(* C2: an ANY entry placed after exact entries runs for every word none of *)
(* them equals, and never instead of an exact entry that equals the word.   *)
C2_WildcardAfterExact ==
    \A j \in Slots :
        (/\ Dispatched
         /\ cmds[j].word = ANY
         /\ \A i \in Slots : i < j => cmds[i].word # ANY)
        => LET exact == {i \in Slots : i < j /\ cmds[i].word = last.word}
           IN /\ exact # {} => /\ Len(last.tried) = 1
                               /\ last.tried[1] \in exact
                               /\ \A i \in exact : last.tried[1] <= i
              /\ exact = {} => last.tried = <<j>>

\* exact entry for X, then ANY: the word XX ran the ANY entry
C2_Witness ==
    /\ Dispatched
    /\ Len(cmds) = 3
    /\ cmds[1].word = <<"X">> /\ cmds[2].word = ANY
    /\ last.word = <<"X", "X">>
    /\ last.tried = <<2>>

\* exact entry for X, then ANY: the word X ran the exact entry
C2_WitnessExact ==
    /\ Dispatched
    /\ Len(cmds) = 3
    /\ cmds[1].word = <<"X">> /\ cmds[2].word = ANY
    /\ cmds[1].function_type # cmds[2].function_type
    /\ last.word = <<"X">>
    /\ last.tried = <<1>>

(* C3: a NULLARY entry given an argument, or a UNARY entry given none,      *)
(* fails with BAD_COMMAND as a WHAT response; no handler is invoked, no     *)
(* OKAY is sent and handle_cmd returns E_BAD_COMMAND.                       *)
C3_ArityMismatch ==
    /\ (MatchedIs(C_NULLARY) /\ HasArg) =>
          /\ stdout = <<"WHAT BAD_COMMAND " \o MSG_CMD_ARGN \o "\n">>
          /\ stderr = DebugTrace
          /\ last.called = <<>>
          /\ last.ret = E_BAD_COMMAND /\ ret = E_BAD_COMMAND
    /\ (MatchedIs(C_UNARY) /\ ~HasArg) =>
          /\ stdout = <<"WHAT BAD_COMMAND " \o MSG_CMD_ARGU \o "\n">>
          /\ stderr = DebugTrace
          /\ last.called = <<>>
          /\ last.ret = E_BAD_COMMAND /\ ret = E_BAD_COMMAND

C3_Witness ==
    /\ MatchedIs(C_NULLARY) /\ HasArg
    /\ ret = E_BAD_COMMAND

C3_WitnessUnary ==
    /\ MatchedIs(C_UNARY) /\ ~HasArg
    /\ ret = E_BAD_COMMAND

(* C4: a NULLARY or UNARY entry of the right arity whose handler returns    *)
(* E_OK yields exactly one OKAY response, "word" or "word argument", no     *)
(* error response, and E_OK.                                                *)
C4_AcceptedEcho ==
    (/\ \/ MatchedIs(C_NULLARY) /\ ~HasArg
        \/ MatchedIs(C_UNARY) /\ HasArg
     /\ last.hres = E_OK)
    => /\ stdout = <<OkayLine>>
       /\ stderr = DebugTrace
       /\ Len(Replies) = 1 /\ Replies[1].code = "R_OKAY"
       /\ last.raised = <<>>
       /\ last.ret = E_OK /\ ret = E_OK

\* a UNARY handler accepted an argument with a blank inside
C4_Witness ==
    /\ MatchedIs(C_UNARY)
    /\ last.arg = <<"X", " ", "X">>
    /\ last.hres = E_OK
    /\ Len(last.called) = 1
    /\ stdout # <<>>

(* C5: when no entry before END applies to the word (the table of END only  *)
(* included), dispatch fails with BAD_COMMAND "Command not recognised", a   *)
(* WHAT response on stdout only; no handler is invoked, nothing goes to the *)
(* propagate stream and no OKAY is sent.                                    *)
C5_NotRecognised ==
    (Dispatched /\ Earliest = {})
    => /\ stdout = <<"WHAT BAD_COMMAND " \o MSG_CMD_NOSUCH \o "\n">>
       /\ stderr = DebugTrace
       /\ last.raised = <<E_BAD_COMMAND>>
       /\ last.called = <<>>
       /\ last.propw = <<>> /\ propout = <<>>
       /\ last.ret = E_BAD_COMMAND /\ ret = E_BAD_COMMAND

\* a table with entries, none for the word
C5_Witness ==
    /\ Dispatched /\ Earliest = {}
    /\ Len(cmds) = 3
    /\ last.prop = PROP
    /\ stdout # <<>>

\* the table of END_CMDS only
C5_WitnessEmpty ==
    /\ Dispatched /\ Earliest = {}
    /\ Len(cmds) = 1
    /\ stdout # <<>>

C7_Propagate ==
    (MatchedIs(C_PROPAGATE) /\ last.prop # NULL)
    => /\ propout = <<Echo \o "\n">>
       /\ last.propw = propout
       /\ last.called = <<>>
       /\ stdout = <<>>
       /\ stderr = DebugTrace
       /\ Replies = <<>>
       /\ last.ret = E_OK /\ ret = E_OK

C7_Witness ==
    /\ MatchedIs(C_PROPAGATE) /\ last.prop = PROP /\ HasArg
    /\ propout # <<>>

(* C8: a PROPAGATE entry with no propagate stream fails with INTERNAL_ERROR *)
(* (an OOPS response), writes nothing to a propagate stream, and            *)
(* E_INTERNAL_ERROR is what handle_cmd returns.                             *)
C8_PropagateNoSink ==
    (MatchedIs(C_PROPAGATE) /\ last.prop = NULL)
    => /\ stdout = <<"OOPS INTERNAL_ERROR " \o MSG_CMD_NOPROP \o "\n">>
       /\ propout = <<>>
       /\ last.ret = E_INTERNAL_ERROR /\ ret = E_INTERNAL_ERROR

(* C9: an IGNORE entry, with or without an argument, invokes no handler,    *)
(* writes nothing to the propagate stream, sends no OKAY and no error       *)
(* response on either stream, and handle_cmd returns E_OK.                  *)
C9_Ignore ==
    MatchedIs(C_IGNORE)
    => /\ last.called = <<>>
       /\ last.propw = <<>> /\ propout = <<>>
       /\ stdout = <<>>
       /\ stderr = DebugTrace
       /\ Replies = <<>>
       /\ last.ret = E_OK /\ ret = E_OK

C9_Witness ==
    /\ MatchedIs(C_IGNORE) /\ HasArg
    /\ last.prop = PROP
    /\ last.tried # <<>>

(* C10: E_COMMAND_IGNORED is never returned by handle_cmd and never passed  *)
(* to error(); an ignored outcome (IGNORE, PROPAGATE, or a handler that     *)
(* returns it) only suppresses the OKAY response and yields E_OK.           *)
C10_IgnoredNotSurfaced ==
    /\ ret # E_COMMAND_IGNORED /\ last.ret # E_COMMAND_IGNORED
    /\ \A k \in DOMAIN last.raised : last.raised[k] # E_COMMAND_IGNORED
    /\ (\/ MatchedIs(C_IGNORE)
        \/ MatchedIs(C_PROPAGATE)
        \/ Dispatched /\ last.called # <<>> /\ last.hres = E_COMMAND_IGNORED)
       => /\ last.ret = E_OK /\ ret = E_OK
          /\ NoOkay
          /\ \A k \in DOMAIN last.resp : last.resp[k].code # "R_OKAY"

\* a handler returned the ignored code
C10_Witness ==
    /\ Dispatched
    /\ last.called # <<>>
    /\ last.hres = E_COMMAND_IGNORED
    /\ ret = E_OK

----------------------------------------------------------------------------
(* Vocabulary of the tokenizer's properties: the line of the latest call   *)
(* described by the positions of its characters, not by the scanning loops. *)

Whitespace == {" ", "\t", "\n", "\f", "\r"}

\* the latest call was a handle_cmd that read a line
ReadLine == last.op = "handle_cmd" /\ ~last.eof

\* positions of the line's characters that are not whitespace
Solid == {i \in DOMAIN last.line : last.line[i] \notin Whitespace}

Lowest(S) == CHOOSE i \in S : \A j \in S : i <= j

Highest(S) == CHOOSE i \in S : \A j \in S : j <= i

\* first and last position of the first run of non-whitespace characters
WordFrom == Lowest(Solid)

WordTo == Highest({i \in Solid : \A j \in WordFrom .. i : j \in Solid})

\* positions of non-whitespace characters after the first run
Beyond == {i \in Solid : i > WordTo}

\* the line has nothing but whitespace
Blank == ReadLine /\ Solid = {}

\* the line has one run of non-whitespace characters and nothing else
WordOnly == ReadLine /\ Solid # {} /\ Beyond = {}

\* the line has a word and further text
WordAndText == ReadLine /\ Solid # {} /\ Beyond # {}

(* C11: a line of nothing but whitespace (a bare terminator included) fails *)
(* with BAD_COMMAND "Need at least a command word" as a WHAT response; the  *)
(* dispatcher is not called, no handler is invoked, no OKAY is sent and     *)
(* handle_cmd returns E_BAD_COMMAND.                                        *)
C11_NoWord ==
    Blank
    => /\ stdout = <<"WHAT BAD_COMMAND " \o MSG_CMD_NOWORD \o "\n">>
       /\ stderr = DebugTrace
       /\ last.raised = <<E_BAD_COMMAND>>
       /\ ~last.tokenized
       /\ last.tried = <<>>
       /\ last.called = <<>>
       /\ last.propw = <<>> /\ propout = <<>>
       /\ \A k \in DOMAIN last.resp : last.resp[k].code # "R_OKAY"
       /\ last.ret = E_BAD_COMMAND /\ ret = E_BAD_COMMAND

\* a line of several whitespace characters and the terminator
C11_Witness ==
    /\ Blank
    /\ Len(last.line) >= 3
    /\ last.line[Len(last.line)] = "\n"
    /\ stdout # <<>>

\* a line that is just the terminator
C11_WitnessBare ==
    /\ Blank
    /\ last.line = <<"\n">>
    /\ stdout # <<>>

(* C12: a line of optional leading whitespace, one run of non-whitespace    *)
(* characters and then only whitespace or nothing (terminated or not) is    *)
(* tokenized as that run for the word and no argument: a NULLARY entry for  *)
(* the word is invoked and a UNARY entry refuses it.                        *)
C12_WordOnly ==
    WordOnly
    => /\ last.tokenized
       /\ last.word = SubSeq(last.line, WordFrom, WordTo)
       /\ last.arg = NULL
       /\ MatchedIs(C_NULLARY)
            => /\ Len(last.called) = 1
               /\ last.called[1].entry \in Earliest
               /\ last.called[1].arg = NULL
               /\ last.raised = <<>>
       /\ MatchedIs(C_UNARY)
            => /\ last.called = <<>>
               /\ last.raised = <<E_BAD_COMMAND>>
               /\ stdout = <<"WHAT BAD_COMMAND " \o MSG_CMD_ARGU \o "\n">>
               /\ ret = E_BAD_COMMAND

\* a padded word on a terminated line, taken by a NULLARY entry
C12_Witness ==
    /\ WordOnly
    /\ WordFrom > 1 /\ WordTo > WordFrom /\ WordTo + 1 < Len(last.line)
    /\ last.line[Len(last.line)] = "\n"
    /\ MatchedIs(C_NULLARY)
    /\ last.called # <<>>

\* an unterminated last line, refused by a UNARY entry
C12_WitnessUnterminated ==
    /\ WordOnly
    /\ WordTo = Len(last.line)
    /\ MatchedIs(C_UNARY)
    /\ stdout # <<>>

(* C13: for a line with a word and further non-whitespace text, the word    *)
(* given to the dispatcher is the first run of non-whitespace characters,   *)
(* and the argument is the line from the first non-whitespace character     *)
(* after the word to the last one of the line: never empty, with no         *)
(* whitespace at either end and its interior whitespace as it was.          *)
C13_WordAndArgument ==
    WordAndText
    => /\ last.tokenized
       /\ last.word = SubSeq(last.line, WordFrom, WordTo)
       /\ \A i \in DOMAIN last.word : last.word[i] \notin Whitespace
       /\ last.arg # NULL
       /\ last.arg = SubSeq(last.line, Lowest(Beyond), Highest(Solid))
       /\ last.arg # <<>>
       /\ last.arg[1] \notin Whitespace
       /\ last.arg[Len(last.arg)] \notin Whitespace
       /\ \A k \in DOMAIN last.called : last.called[k].arg = last.arg

\* an argument with whitespace inside, on a terminated line
C13_Witness ==
    /\ WordAndText
    /\ Highest(Solid) < Len(last.line)
    /\ \E i \in Lowest(Beyond) .. Highest(Solid) : last.line[i] \in Whitespace
    /\ last.called # <<>>

\* several separators before the argument, and whitespace before the terminator
C13_WitnessPadded ==
    /\ WordAndText
    /\ Lowest(Beyond) > WordTo + 2
    /\ Highest(Solid) + 1 < Len(last.line)
    /\ last.called # <<>>

----------------------------------------------------------------------------
(* C14: a call of handle_cmd that finds the input exhausted returns E_EOF   *)
(* without tokenizing or dispatching: no handler is invoked, nothing is     *)
(* written to stdout or to the propagate stream, and the only responses are *)
(* debug messages on stderr, so no OKAY, WHAT, NOPE, FAIL or OOPS is sent.  *)
C14_EndOfFile ==
    [][(last'.op = "handle_cmd" /\ last'.eof)
       => /\ ret' = E_EOF /\ last'.ret = E_EOF
          /\ ~last'.tokenized
          /\ last'.tried = <<>>
          /\ last'.called = <<>>
          /\ last'.raised = <<>>
          /\ last'.propw = <<>>
          /\ \A k \in DOMAIN last'.resp : last'.resp[k].code = "R_DBUG"
          /\ stdout' = stdout
          /\ propout' = propout
          /\ Len(stderr') = Len(stderr) + Len(last'.resp)
          /\ SubSeq(stderr', 1, Len(stderr)) = stderr
          /\ in' = in]_vars

\* end of file after a line that was answered on stdout
C14_Witness ==
    /\ last.op = "handle_cmd" /\ last.eof
    /\ ret = E_EOF
    /\ stdout # <<>>
    /\ in = <<>>

\* end of file on a stream that held no line at all
C14_WitnessEmpty ==
    /\ last.op = "handle_cmd" /\ last.eof
    /\ ret = E_EOF
    /\ stdout = <<>>
    /\ Len(stderr) = 3

----------------------------------------------------------------------------
(* C15: a response with code c and message m puts the line "<name of c> m"  *)
(* on stdout exactly if c's stdout flag is set and on stderr exactly if its *)
(* stderr flag is set, after what the stream already held; the flags are    *)
(* the same at every emission, and R_DBUG never reaches stdout.             *)
C15_Routing ==
    [][(last'.op = "response")
       => LET r == last'.resp[1]
              line == ResponseName(r.code) \o " " \o r.msg \o "\n"
          IN /\ Len(last'.resp) = 1
             /\ stdout' = IF ToStdout(r.code) THEN Append(stdout, line) ELSE stdout
             /\ stderr' = IF ToStderr(r.code) THEN Append(stderr, line) ELSE stderr
             /\ r.code = "R_DBUG" => stdout' = stdout /\ stderr' # stderr
             /\ propout' = propout]_vars

\* a debug message after a response that went to stdout
C15_Witness ==
    /\ last.op = "response"
    /\ last.resp[1].code = "R_DBUG"
    /\ Len(stdout) = 1 /\ Len(stderr) = 1

\* a response that goes to both streams
C15_WitnessBoth ==
    /\ last.op = "response"
    /\ last.resp[1].code = "R_FAIL"
    /\ stdout = <<"FAIL 1 2\n">> /\ stderr = stdout

----------------------------------------------------------------------------
(* C16: blame is mapped to a response code by one fixed function defined on *)
(* all four blame categories, USER to WHAT, POLICY to NOPE, ENVIRONMENT to  *)
(* FAIL and PROGRAMMER to OOPS, and the one response error() sends carries  *)
(* the code that function gives for the blame of the error code.            *)
BlameMap ==
    [b \in {"EB_USER", "EB_POLICY", "EB_ENVIRONMENT", "EB_PROGRAMMER"} |->
        CASE b = "EB_USER" -> "R_WHAT"
          [] b = "EB_POLICY" -> "R_NOPE"
          [] b = "EB_ENVIRONMENT" -> "R_FAIL"
          [] b = "EB_PROGRAMMER" -> "R_OOPS"]

C16_WitnessPolicy ==
    /\ last.op = "error"
    /\ last.raised = <<E_COMMAND_REJECTED>>
    /\ stdout = <<"NOPE COMMAND_REJECTED ready\n">>

----------------------------------------------------------------------------
\* the error codes the latest call raised or returned
CodesUsed ==
    {last.raised[k] : k \in DOMAIN last.raised} \cup (IF ret = "none" THEN {} ELSE {ret})

\* the code has a name and a blame of its own in the tables
HasDescriptor(c) ==
    \/ c \in DOMAIN COMMAND_ERRORS
    \/ /\ ErrorValue(c) + 1 \in DOMAIN ERRORS
       /\ ErrorValue(c) + 1 \in DOMAIN ERROR_BLAME

(* C17: every error code that is raised or returned is a defined error code *)
(* and has a descriptor in the tables that gives it a name and a blame.     *)
C17_ClassificationTotal ==
    \A c \in CodesUsed : c \in ErrorCodes /\ HasDescriptor(c)

----------------------------------------------------------------------------
\* the line error() sends when exec_cmd_struct is given the END_CMDS entry
HitEndLine == "OOPS INTERNAL_ERROR " \o MSG_CMD_HITEND \o "\n"

(* C18 as stated: a dispatch that reaches the END sentinel without a match  *)
(* fails with INTERNAL_ERROR "Hit end of commands list without stopping",   *)
(* an OOPS response, and not with the user error for an unknown word.       *)
C18_HitEndIsInternal ==
    (Dispatched /\ Earliest = {})
    => /\ last.raised = <<E_INTERNAL_ERROR>>
       /\ stdout = <<HitEndLine>>
       /\ ret = E_INTERNAL_ERROR

(* C18 amended: exec_cmd never runs the END sentinel, so no dispatch raises *)
(* the INTERNAL_ERROR "Hit end of commands list without stopping"; a        *)
(* dispatch that reaches the sentinel without a match fails with the user   *)
(* error BAD_COMMAND, a WHAT response, and no OOPS.                         *)
C18_EndNeverRun ==
    /\ \A k \in DOMAIN last.tried : last.tried[k] \in Slots
    /\ \A k \in DOMAIN stdout : stdout[k] # HitEndLine
    /\ \A k \in DOMAIN stderr : stderr[k] # HitEndLine
    /\ (Dispatched /\ Earliest = {})
       => /\ last.tried = <<>>
          /\ last.raised = <<E_BAD_COMMAND>>
          /\ \A k \in DOMAIN last.resp : last.resp[k].code # "R_OOPS"
          /\ \E k \in DOMAIN last.resp : last.resp[k].code = "R_WHAT"
          /\ ret = E_BAD_COMMAND

\* the sentinel reached after one entry for another word
C18_Witness ==
    /\ Dispatched /\ Earliest = {}
    /\ Len(cmds) = 2
    /\ last.raised = <<E_BAD_COMMAND>>
    /\ ret = E_BAD_COMMAND

----------------------------------------------------------------------------
\* a failure that handle_cmd or the dispatcher finds by itself
FoundFailure ==
    \/ Blank
    \/ Dispatched /\ Earliest = {}
    \/ MatchedIs(C_NULLARY) /\ HasArg
    \/ MatchedIs(C_UNARY) /\ ~HasArg
    \/ MatchedIs(C_REJECT)
    \/ MatchedIs(C_PROPAGATE) /\ last.prop = NULL

\* a handler was invoked and returned a failure
HandlerFailure ==
    /\ Dispatched /\ last.called # <<>>
    /\ last.hres \notin {E_OK, E_COMMAND_IGNORED}

(* C19: every failure of tokenizing or dispatch, end of file and the        *)
(* ignored outcome apart, is answered by exactly one error response whose   *)
(* code is the one the blame of the error code maps to, and handle_cmd      *)
(* returns that error code; a failure code a handler returns is returned by *)
(* handle_cmd as it is, and handle_cmd sends no error response besides the  *)
(* one the handler is left to send.                                         *)
C19_FailureSurfaced ==
    /\ FoundFailure
       => /\ Len(last.raised) = 1
          /\ Len(Replies) = 1
          /\ Replies[1].code = BlameMap[ErrorBlame(last.raised[1])]
          /\ last.ret = last.raised[1]
          /\ ret = last.raised[1]
    /\ HandlerFailure
       => /\ Replies = <<>>
          /\ last.ret = last.hres
          /\ ret = last.hres

----------------------------------------------------------------------------
\* the latest call forwarded its line
Forwarded == MatchedIs(C_PROPAGATE) /\ last.prop # NULL

(* C20: over any sequence of input lines, a call that handles a PROPAGATE   *)
(* command with a propagate stream appends exactly that command's line to   *)
(* what the stream already holds and leaves nothing unflushed, and no other *)
(* call changes the stream: when the next line is read the stream holds the *)
(* forwarded commands, one line each, in the order they were processed.     *)
C20_ForwardOrder ==
    [][/\ propbuf' = <<>>
       /\ propout' = IF last'.op = "handle_cmd" /\ Forwarded'
                     THEN Append(propout, Echo' \o "\n")
                     ELSE propout
       /\ (last'.op = "handle_cmd" /\ ~last'.eof)
          => /\ in # <<>>
             /\ last'.line = Head(in)
             /\ in' = Tail(in)]_vars

\* two different commands forwarded one after the other
C20_Witness ==
    /\ Forwarded
    /\ Len(propout) = 2
    /\ propout[1] # propout[2]
    /\ propout[2] = Echo \o "\n"
    /\ propbuf = <<>>

\* a forwarded command after one that was not forwarded
C20_WitnessMixed ==
    /\ Forwarded
    /\ Len(propout) = 1
    /\ Len(stderr) = 4
    /\ in = <<>>

----------------------------------------------------------------------------
\* the lines a stream gained in a step, given what it held before and after
Gained(before, after) == SubSeq(after, Len(before) + 1, Len(after))

(* C21: over any sequence of input lines, a call that reads a line invokes  *)
(* at most one handler and writes every response the line causes before it  *)
(* returns, after what each stream already holds: stderr gains the debug    *)
(* line of the line read, then the line's responses, then "command          *)
(* processed"; stdout gains the line's responses; a call that reads no line *)
(* leaves stdout alone.  Each stream so has its responses in the order of   *)
(* the lines that caused them.                                              *)
C21_ResponsesInLineOrder ==
    [][/\ Len(stdout') >= Len(stdout) /\ SubSeq(stdout', 1, Len(stdout)) = stdout
       /\ Len(stderr') >= Len(stderr) /\ SubSeq(stderr', 1, Len(stderr)) = stderr
       /\ (last'.op = "handle_cmd" /\ ~last'.eof)
          => /\ in # <<>> /\ last'.line = Head(in) /\ in' = Tail(in)
             /\ Len(last'.called) <= 1
             /\ Gained(stdout, stdout') =
                   [k \in DOMAIN Replies' |->
                       ResponseName(Replies'[k].code) \o " " \o Replies'[k].msg \o "\n"]
             /\ Len(Gained(stderr, stderr')) >= 2
             /\ Head(Gained(stderr, stderr')) =
                   "DBUG got command: " \o Str(Head(in)) \o "\n"
             /\ stderr'[Len(stderr')] = "DBUG command processed\n"
       /\ ~(last'.op = "handle_cmd" /\ ~last'.eof) => stdout' = stdout]_vars

\* two lines answered one after the other, the second by a handler
C21_Witness ==
    /\ last.op = "handle_cmd" /\ ~last.eof
    /\ Len(stdout) = 2
    /\ stdout[1] # stdout[2]
    /\ Len(last.called) = 1
    /\ in = <<>>

----------------------------------------------------------------------------
\* the name of each code of enum error without its E_, and the blame the
\* comments of ERROR_BLAME give it (none is written for E_INCOMPLETE)
Documented ==
    [c \in {error_enum[i] : i \in DOMAIN error_enum} |->
        CASE c = "E_OK" -> [name |-> "OK", blame |-> {"EB_PROGRAMMER"}]
          [] c = "E_NO_FILE" -> [name |-> "NO_FILE", blame |-> {"EB_USER"}]
          [] c = "E_BAD_STATE" -> [name |-> "BAD_STATE", blame |-> {"EB_USER"}]
          [] c = "E_BAD_COMMAND" -> [name |-> "BAD_COMMAND", blame |-> {"EB_USER"}]
          [] c = "E_BAD_FILE" -> [name |-> "BAD_FILE", blame |-> {"EB_ENVIRONMENT"}]
          [] c = "E_BAD_CONFIG" -> [name |-> "BAD_CONFIG", blame |-> {"EB_ENVIRONMENT"}]
          [] c = "E_AUDIO_INIT_FAIL" ->
                [name |-> "AUDIO_INIT_FAIL", blame |-> {"EB_ENVIRONMENT"}]
          [] c = "E_INTERNAL_ERROR" ->
                [name |-> "INTERNAL_ERROR", blame |-> {"EB_PROGRAMMER"}]
          [] c = "E_NO_MEM" -> [name |-> "NO_MEM", blame |-> {"EB_ENVIRONMENT"}]
          [] c = "E_EOF" -> [name |-> "EOF", blame |-> {"EB_PROGRAMMER"}]
          [] c = "E_INCOMPLETE" ->
                [name |-> "INCOMPLETE",
                 blame |-> {"EB_USER", "EB_ENVIRONMENT", "EB_PROGRAMMER"}]
          [] c = "E_UNKNOWN" -> [name |-> "UNKNOWN", blame |-> {"EB_PROGRAMMER"}]]

(* C22: for every code c of enum error, error() prints c's constant name    *)
(* without the leading E_ and answers with the response of the blame        *)
(* documented for c, the last codes E_EOF, E_INCOMPLETE and E_UNKNOWN       *)
(* included.                                                                *)
C22_NamesAndBlames ==
    (last.op = "error" /\ last.raised[1] \in DOMAIN Documented)
    => /\ \E m \in IOMessages :
             last.resp[1].msg = Documented[last.raised[1]].name \o " " \o m
       /\ \E b \in Documented[last.raised[1]].blame : last.resp[1].code = BlameMap[b]

----------------------------------------------------------------------------
\* the first entry that applies to the word fails: wrong arity, a REJECT, or
\* a handler that returns an error
FirstMatchFails ==
    \/ MatchedIs(C_NULLARY) /\ HasArg
    \/ MatchedIs(C_UNARY) /\ ~HasArg
    \/ MatchedIs(C_REJECT)
    \/ HandlerFailure

\* entries after the first one that also apply to the word
LaterMatches == {i \in Slots : Applies(i) /\ i \notin Earliest}

(* C23: when the first entry that applies to the word fails (arity check,   *)
(* REJECT, or an error from its handler), no later entry that applies to    *)
(* the word is tried and the failure is what handle_cmd returns; with       *)
(* NULLARY w followed by UNARY w, "w arg" is refused with BAD_COMMAND and   *)
(* the UNARY handler is never invoked.                                      *)
C23_NoRetryAfterFailure ==
    /\ FirstMatchFails
       => /\ \A k \in DOMAIN last.tried : last.tried[k] \notin LaterMatches
          /\ \A k \in DOMAIN last.called : last.called[k].entry \notin LaterMatches
          /\ Len(last.tried) = 1
          /\ ret \notin {E_OK, E_COMMAND_IGNORED}
          /\ NoOkay
    /\ (/\ Dispatched /\ HasArg /\ Len(cmds) = 3
        /\ cmds[1].function_type = C_NULLARY /\ cmds[2].function_type = C_UNARY
        /\ Applies(1) /\ Applies(2))
       => /\ last.called = <<>>
          /\ last.raised = <<E_BAD_COMMAND>>
          /\ stdout = <<"WHAT BAD_COMMAND " \o MSG_CMD_ARGN \o "\n">>
          /\ ret = E_BAD_COMMAND

\* NULLARY w, UNARY w and the line "w arg"
C23_Witness ==
    /\ Dispatched /\ HasArg /\ Len(cmds) = 3
    /\ cmds[1].function_type = C_NULLARY /\ cmds[2].function_type = C_UNARY
    /\ cmds[1].word = last.word /\ cmds[2].word = last.word
    /\ ret = E_BAD_COMMAND
    /\ stdout # <<>>

\* a handler's error with an ANY entry behind it
C23_WitnessHandler ==
    /\ HandlerFailure
    /\ Len(cmds) = 3
    /\ cmds[2].word = ANY
    /\ last.tried = <<1>>

----------------------------------------------------------------------------
\* the word of the line is the placeholder word of END_CMDS
WordOfEnd == Dispatched /\ last.word = cmds[Len(cmds)].word

(* C24: the END_CMDS entry is never matched as a command: a line whose word *)
(* is its placeholder word XXXX, with no earlier entry for it, is answered  *)
(* like any unknown word, with the user error BAD_COMMAND "Command not      *)
(* recognised" as a WHAT response, and never with the INTERNAL_ERROR of the *)
(* END policy; an earlier entry that applies to XXXX is run as usual.       *)
C24_EndWordNotMatched ==
    WordOfEnd
    => /\ Len(cmds) \notin {last.tried[k] : k \in DOMAIN last.tried}
       /\ E_INTERNAL_ERROR \in {last.raised[k] : k \in DOMAIN last.raised}
            => MatchedIs(C_PROPAGATE)
       /\ \A k \in DOMAIN stdout : stdout[k] # HitEndLine
       /\ Earliest = {}
            => /\ last.tried = <<>>
               /\ last.called = <<>>
               /\ last.raised = <<E_BAD_COMMAND>>
               /\ stdout = <<"WHAT BAD_COMMAND " \o MSG_CMD_NOSUCH \o "\n">>
               /\ stderr = DebugTrace
               /\ ret = E_BAD_COMMAND
       /\ Earliest # {} => last.tried = <<Lowest(Earliest)>>

\* the word XXXX with an argument, and a table with entries for other words
C24_Witness ==
    /\ WordOfEnd /\ Earliest = {}
    /\ last.word = <<"X", "X", "X", "X">>
    /\ HasArg
    /\ Len(cmds) = 3
    /\ ret = E_BAD_COMMAND

----------------------------------------------------------------------------
C25_WitnessForwarded ==
    /\ Forwarded
    /\ Len(propout) = 2
    /\ stdout = <<>>
    /\ ret = E_OK
    /\ in = <<>>

\* a line rejected after a line that was ignored
C25_WitnessRejected ==
    /\ MatchedIs(C_REJECT)
    /\ Len(stderr) = 4
    /\ stdout = <<"NOPE COMMAND_REJECTED removed\n">>
    /\ ret = E_COMMAND_REJECTED

====
